---- MODULE Spec2Model ----
(***************************************************************************)
(* randompic: a web server that periodically selects a random image from a *)
(* directory tree and renders it on an auto-refreshing page.               *)
(*                                                                         *)
(* The model follows src/main.go lines 1-278 (the variant that reads       *)
(* ./config.json).  Strings are sequences of one-character strings, so     *)
(* that slicing, prefixes, extensions and letter case are computed as the  *)
(* Go code computes them.                                                  *)
(***************************************************************************)
EXTENDS Integers, Sequences, FiniteSets, TLC

VARIABLES
    tree,        \* the files on disk: absolute clean paths, in WalkDir order
    configFile,  \* the contents of ./config.json as the decoder would read it
    mainPc,      \* position of main()
    fileList,    \* main's fileList, handed to the updater
    config,      \* main's config
    interval,    \* the updater's interval, in seconds
    randomImage, \* the shared current selection
    imageMutex,  \* TRUE while imageMutex is locked
    updPc,       \* position of updateImagePeriodically
    newImage,    \* the updater's local newImage
    selErr,      \* the err selectRandomImage got from SelectRandomElement
    sleepLeft,   \* seconds the updater's time.Sleep still has to wait
    elapsed,     \* seconds since the updater's latest selection (saturating)
    published,   \* TRUE once the updater has completed a tick
    hPc,         \* position of each page handler
    hConfig,     \* each handler's local config
    hSel,        \* the value of randomImage each handler read under the lock
    hImage,      \* each handler's local image (the URL)
    hResp        \* what each handler answered: "none", "page", "error", "panic"

vars == <<tree, configFile, mainPc, fileList, config, interval,
          randomImage, imageMutex, updPc, newImage, selErr, sleepLeft,
          elapsed, published, hPc, hConfig, hSel, hImage, hResp>>

(***************************************************************************)
(* Bounds of the model.                                                    *)
(***************************************************************************)
NumHandlers == 2
MaxElapsed == 1

Handlers == 1..NumHandlers

(***************************************************************************)
(* Strings.                                                                *)
(***************************************************************************)
Max(S) == CHOOSE x \in S : \A y \in S : y <= x

Range(s) == {s[i] : i \in 1..Len(s)}

UpperLetters == <<"A","B","C","D","E","F","G","H","I","J","K","L","M",
                  "N","O","P","Q","R","S","T","U","V","W","X","Y","Z">>
LowerLetters == <<"a","b","c","d","e","f","g","h","i","j","k","l","m",
                  "n","o","p","q","r","s","t","u","v","w","x","y","z">>

\* unicode.ToLower on one character
LowerChar(c) ==
    IF \E i \in 1..Len(UpperLetters) : UpperLetters[i] = c
    THEN LowerLetters[CHOOSE i \in 1..Len(UpperLetters) : UpperLetters[i] = c]
    ELSE c

\* strings.ToLower
ToLower(s) == [i \in 1..Len(s) |-> LowerChar(s[i])]

\* strings.HasPrefix
HasPrefix(s, prefix) ==
    /\ Len(prefix) <= Len(s)
    /\ SubSeq(s, 1, Len(prefix)) = prefix

\* strings.Contains
Contains(s, substr) ==
    \E i \in 0..(Len(s) - Len(substr)) : SubSeq(s, i + 1, i + Len(substr)) = substr

\* s[n:] panics when n > len(s)
SlicePanics(s, n) == n > Len(s)

\* s[n:]
SliceFrom(s, n) == SubSeq(s, n + 1, Len(s))

(***************************************************************************)
(* path/filepath.                                                          *)
(***************************************************************************)
\* the elements of a path between its separators (empty ones included)
Components(p) ==
    LET acc[i \in 0..Len(p)] ==
            IF i = 0 THEN << <<>> >>
            ELSE LET prev == acc[i - 1]
                 IN  IF p[i] = "/"
                     THEN Append(prev, <<>>)
                     ELSE [prev EXCEPT ![Len(prev)] = Append(@, p[i])]
    IN  acc[Len(p)]

RECURSIVE JoinSlash(_)
JoinSlash(elems) ==
    IF elems = <<>> THEN <<>>
    ELSE IF Len(elems) = 1 THEN elems[1]
    ELSE elems[1] \o <<"/">> \o JoinSlash(Tail(elems))

\* filepath.Clean: drops empty and "." elements, resolves ".." lexically
Clean(p) ==
    IF p = <<>> THEN <<".">>
    ELSE LET rooted == p[1] = "/"
             comps == Components(p)
             st[k \in 0..Len(comps)] ==
                 IF k = 0 THEN <<>>
                 ELSE LET c == comps[k]
                          prev == st[k - 1]
                      IN  IF c = <<>> \/ c = <<".">> THEN prev
                          ELSE IF c = <<".", ".">>
                          THEN IF prev # <<>> /\ prev[Len(prev)] # <<".", ".">>
                               THEN SubSeq(prev, 1, Len(prev) - 1)
                               ELSE IF rooted THEN prev ELSE Append(prev, c)
                          ELSE Append(prev, c)
             body == JoinSlash(st[Len(comps)])
             out == IF rooted THEN <<"/">> \o body ELSE body
         IN  IF out = <<>> THEN <<".">> ELSE out

\* filepath.IsAbs
IsAbs(p) == Len(p) > 0 /\ p[1] = "/"

\* the working directory of the process
Cwd == <<"/", "w">>

\* filepath.Abs
Abs(p) == IF IsAbs(p) THEN Clean(p) ELSE Clean(Cwd \o <<"/">> \o p)

\* index of the last separator of p, 0 when there is none
LastSlash(p) == Max({0} \cup {i \in 1..Len(p) : p[i] = "/"})

\* filepath.Ext
Ext(path) ==
    LET dots == {i \in (LastSlash(path) + 1)..Len(path) : path[i] = "."}
    IN  IF dots = {} THEN <<>> ELSE SubSeq(path, Max(dots), Len(path))

RECURSIVE StripTrailingSlashes(_)
StripTrailingSlashes(p) ==
    IF Len(p) > 0 /\ p[Len(p)] = "/"
    THEN StripTrailingSlashes(SubSeq(p, 1, Len(p) - 1))
    ELSE p

\* filepath.Base
Base(path) ==
    IF path = <<>> THEN <<".">>
    ELSE LET q == StripTrailingSlashes(path)
             b == SubSeq(q, LastSlash(q) + 1, Len(q))
         IN  IF b = <<>> THEN <<"/">> ELSE b

\* filepath.Dir
Dir(path) == Clean(SubSeq(path, 1, LastSlash(path)))

(***************************************************************************)
(* The file system, as ListFiles sees it.                                  *)
(***************************************************************************)
\* file f lies below directory d (d an absolute clean path)
IsUnder(d, f) ==
    IF d = <<"/">> THEN Len(f) > 1 /\ f[1] = "/"
    ELSE HasPrefix(f, d \o <<"/">>)

\* p is a regular file of the file system
IsFile(t, p) == p \in Range(t)

\* p is a directory of the file system: the root, the working directory, or
\* a directory above one of them or above a file
IsDirectory(t, p) ==
    \/ p = <<"/">>
    \/ p = Cwd
    \/ IsUnder(p, Cwd)
    \/ \E i \in 1..Len(t) : IsUnder(p, t[i])

\* the kernel's walk along root, element by element: "." and ".." are
\* looked up in the file system, not removed lexically.  ok is FALSE when an
\* element is missing (ENOENT) or is looked up in a regular file (ENOTDIR).
Resolve(t, root) ==
    LET comps == Components(root)
        at[k \in 0..Len(comps)] ==
            IF k = 0
            THEN [ok |-> TRUE, path |-> IF IsAbs(root) THEN <<"/">> ELSE Cwd]
            ELSE LET prev == at[k - 1]
                     c == comps[k]
                     next == IF prev.path = <<"/">> THEN <<"/">> \o c
                             ELSE prev.path \o <<"/">> \o c
                 IN  IF ~prev.ok \/ ~IsDirectory(t, prev.path)
                     THEN [ok |-> FALSE, path |-> prev.path]
                     ELSE IF c = <<>> \/ c = <<".">> THEN prev
                     ELSE IF c = <<".", ".">>
                     THEN [ok |-> TRUE, path |-> Clean(next)]
                     ELSE [ok |-> IsFile(t, next) \/ IsDirectory(t, next),
                           path |-> next]
    IN  at[Len(comps)]

\* os.Lstat(root) fails
LstatFails(t, root) ==
    \/ root = <<>>
    \/ ~Resolve(t, root).ok

\* ListFiles: the err it returns
ListFilesErr(t, root) == LstatFails(t, root)

\* ListFiles: the files it returns, each as filepath.Abs gives it
ListFiles(t, root) ==
    IF LstatFails(t, root) THEN <<>>
    ELSE LET r == Abs(root)
         IN  SelectSeq(t, LAMBDA f : f = r \/ IsUnder(r, f))

(***************************************************************************)
(* Configuration.                                                          *)
(***************************************************************************)
\* what loadConfig returns when the file is missing or does not parse
NoConfig ==
    [ok |-> FALSE, ExcludedExtensions |-> <<>>, ExcludedDirectories |-> <<>>,
     ImageDirectory |-> <<>>, DisplaySeconds |-> 0]

\* a config.json that parses; a missing field is Go's zero value
Cfg(exts, dirs, root, secs) ==
    [ok |-> TRUE, ExcludedExtensions |-> exts, ExcludedDirectories |-> dirs,
     ImageDirectory |-> root, DisplaySeconds |-> secs]

\* loadConfig: the err is non-nil
loadConfigErr(file) == ~file.ok

\* loadConfig: the *Config (nil on error)
loadConfig(file) == IF file.ok THEN file ELSE NoConfig

\* contains
contains(slice, str) == \E i \in 1..Len(slice) : slice[i] = str

\* the file passes the three exclusion checks of loadAllImages
KeepFile(cfg, file) ==
    /\ ~contains(cfg.ExcludedExtensions, ToLower(Ext(file)))
    /\ ~HasPrefix(Base(file), <<".">>)
    /\ ~ \E i \in 1..Len(cfg.ExcludedDirectories) :
            Contains(Dir(file), cfg.ExcludedDirectories[i])

\* loadAllImages
loadAllImages(file, t) ==
    IF loadConfigErr(file) THEN <<>>
    ELSE LET cfg == loadConfig(file)
         IN  IF ListFilesErr(t, cfg.ImageDirectory) THEN <<>>
             ELSE SelectSeq(ListFiles(t, cfg.ImageDirectory),
                            LAMBDA f : KeepFile(cfg, f))

(***************************************************************************)
(* The selector.                                                           *)
(***************************************************************************)
\* SelectRandomElement picking without replacement: the chosen element is
\* cut out of the caller's slice
SelectRandomElement_Removes(elements) ==
    IF Len(elements) = 0
    THEN {[val |-> <<>>, err |-> TRUE, elements |-> elements]}
    ELSE {[val |-> elements[randomIndex + 1], err |-> FALSE,
           elements |-> SubSeq(elements, 1, randomIndex)
                            \o SubSeq(elements, randomIndex + 2, Len(elements))] :
            randomIndex \in 0..(Len(elements) - 1)}

\* SelectRandomElement with the emptiness test inverted
SelectRandomElement_Inverted(elements) ==
    IF Len(elements) # 0
    THEN {[val |-> <<>>, err |-> TRUE, elements |-> elements]}
    ELSE {[val |-> <<>>, err |-> FALSE, elements |-> elements]}

\* SelectRandomElement: every outcome r.Intn(len(elements)) allows.  val and
\* err are the two results; elements is the caller's slice after the call.
SelectRandomElement(elements) ==
    IF Len(elements) = 0
    THEN {[val |-> <<>>, err |-> TRUE, elements |-> elements]}
    ELSE {[val |-> elements[randomIndex + 1], err |-> FALSE, elements |-> elements] :
            randomIndex \in 0..(Len(elements) - 1)}

\* selectRandomImage returning a placeholder path instead of "" on error
selectRandomImage_Placeholder(res) ==
    IF res.err THEN <<"/", "n", "o", "n", "e">> ELSE res.val

\* selectRandomImage, given what SelectRandomElement returned
selectRandomImage(res) == IF res.err THEN <<>> ELSE res.val

(***************************************************************************)
(* imageMutex.                                                             *)
(***************************************************************************)
\* a Lock() that does not wait
CanLock_Unguarded(locked) == TRUE

\* imageMutex.Lock() returns only when the mutex is not held
CanLock(locked) == ~locked

(***************************************************************************)
(* The page URL.                                                           *)
(***************************************************************************)
ImagesPrefix == <<"/", "i", "m", "a", "g", "e", "s">>

\* "/images" + randomImage[len(config.ImageDirectory):] panics
ImagePanics(image, cfg) == SlicePanics(image, Len(cfg.ImageDirectory))

\* "/images" + randomImage[len(config.ImageDirectory):]
ImageURL(image, cfg) == ImagesPrefix \o SliceFrom(image, Len(cfg.ImageDirectory))

(***************************************************************************)
(* The directory trees and configuration files of the model.               *)
(***************************************************************************)
F_hidden == <<"/","p","/",".","h",".","j","p","g">>      \* /p/.h.jpg
F_a      == <<"/","p","/","2","/","a",".","j","p","g">>  \* /p/2/a.jpg
F_bMOV   == <<"/","p","/","b",".","M","O","V">>          \* /p/b.MOV
F_c      == <<"/","p","/","t","/","c",".","j","p","g">>  \* /p/t/c.jpg
F_d      == <<"/","p","/","x",".","y","/","d">>          \* /p/x.y/d
F_w      == <<"/","w","/","p","/","e",".","m","o","v">>  \* /w/p/e.mov
\* ./config.json, which is there whenever loadAllImages gets to walk
F_config == <<"/","w","/","c","o","n","f","i","g",".","j","s","o","n">>
\* ./randompic.log, which a previous run of the process has left
F_log    == <<"/","w","/","r","a","n","d","o","m","p","i","c",".","l","o","g">>

D_p      == <<"/","p">>          \* /p
D_pSlash == <<"/","p","/">>      \* /p/
D_q      == <<"/","q">>          \* /q
D_rel    == <<"p">>              \* p (relative to the working directory)
D_root   == <<"/">>              \* /
D_dotdot == <<"/","q","/",".",".","/","p">>   \* /q/../p

E_mov    == <<".","m","o","v">>  \* .mov
E_MOV    == <<".","M","O","V">>  \* .MOV
E_jpg    == <<".","j","p","g">>  \* .jpg
S_t      == <<"t">>
S_2      == <<"2">>

Tree1 == <<F_hidden, F_a, F_bMOV, F_c, F_config>>
Tree2 == <<F_a, F_bMOV, F_d, F_config, F_w>>
Tree3 == <<F_bMOV, F_config>>
\* Tree3 at a restart
Tree4 == <<F_bMOV, F_config, F_log>>

\* excludes .mov and directories with "t": one file of Tree1 is left, none
\* of Tree3
ConfigA == Cfg(<<E_mov>>, <<S_t>>, D_p, 1)
\* the root spelled with a final slash, no waiting: two files of Tree1 are
\* left, one of Tree3
ConfigB == Cfg(<<E_MOV>>, <<S_t>>, D_pSlash, 0)
\* a root that does not exist: the file list is empty
ConfigD == Cfg(<<>>, <<>>, D_q, -1)
\* "{}": every field missing
ConfigZero == Cfg(<<>>, <<>>, <<>>, 0)

Trees == {Tree1, Tree3}
ConfigFiles == {ConfigA, ConfigB}

ScanTrees == {Tree1, Tree2, Tree3, Tree4}
ScanConfigFiles ==
    {NoConfig, ConfigZero, ConfigD} \cup
    {Cfg(exts, dirs, root, 0) :
        exts \in {<<>>, <<E_mov>>, <<E_MOV>>, <<E_jpg, E_mov>>},
        dirs \in {<<>>, <<S_t>>, <<S_2, S_t>>},
        root \in {D_p, D_pSlash, D_rel, D_root, D_dotdot, F_bMOV}}

(***************************************************************************)
(* main.                                                                   *)
(***************************************************************************)
StartState ==
    /\ mainPc = "loadAllImages"
    /\ fileList = <<>>
    /\ config = NoConfig
    /\ interval = 0
    /\ randomImage = <<>>
    /\ imageMutex = FALSE
    /\ updPc = "notStarted"
    /\ newImage = <<>>
    /\ selErr = FALSE
    /\ sleepLeft = 0
    /\ elapsed = 0
    /\ published = FALSE
    /\ hPc = [h \in Handlers |-> "idle"]
    /\ hConfig = [h \in Handlers |-> NoConfig]
    /\ hSel = [h \in Handlers |-> <<>>]
    /\ hImage = [h \in Handlers |-> <<>>]
    /\ hResp = [h \in Handlers |-> "none"]

Init ==
    /\ tree \in Trees
    /\ configFile \in ConfigFiles
    /\ StartState

\* fileList := loadAllImages()
MainLoadAllImages ==
    /\ mainPc = "loadAllImages"
    /\ fileList' = loadAllImages(configFile, tree)
    /\ mainPc' = "loadConfig"
    /\ UNCHANGED <<tree, configFile, config, interval, randomImage,
                   imageMutex, updPc, newImage, selErr, sleepLeft, elapsed,
                   published, hPc, hConfig, hSel, hImage, hResp>>

\* config, _ := loadConfig(configPath); go updateImagePeriodically(...);
\* the handlers are registered and the server listens.  A nil config makes
\* config.DisplaySeconds panic, which ends the process.
MainLoadConfig ==
    /\ mainPc = "loadConfig"
    /\ config' = loadConfig(configFile)
    /\ IF loadConfigErr(configFile)
       THEN /\ mainPc' = "crashed"
            /\ UNCHANGED <<interval, updPc>>
       ELSE /\ interval' = loadConfig(configFile).DisplaySeconds
            /\ updPc' = "select"
            /\ mainPc' = "serving"
    /\ UNCHANGED <<tree, configFile, fileList, randomImage, imageMutex,
                   newImage, selErr, sleepLeft, elapsed, published, hPc,
                   hConfig, hSel, hImage, hResp>>

(***************************************************************************)
(* updateImagePeriodically.                                                *)
(***************************************************************************)
\* newImage := selectRandomImage(fileList)
UpdaterSelect ==
    /\ mainPc = "serving"
    /\ updPc = "select"
    /\ \E res \in SelectRandomElement(fileList) :
          /\ newImage' = selectRandomImage(res)
          /\ selErr' = res.err
          /\ fileList' = res.elements
    /\ elapsed' = 0
    /\ updPc' = "lock"
    /\ UNCHANGED <<tree, configFile, mainPc, config, interval,
                   randomImage, imageMutex, sleepLeft, published, hPc, hConfig,
                   hSel, hImage, hResp>>

\* imageMutex.Lock()
UpdaterLock ==
    /\ updPc = "lock"
    /\ CanLock(imageMutex)
    /\ imageMutex' = TRUE
    /\ updPc' = "write"
    /\ UNCHANGED <<tree, configFile, mainPc, fileList, config, interval,
                   randomImage, newImage, selErr, sleepLeft, elapsed, published,
                   hPc, hConfig, hSel, hImage, hResp>>

\* the write lost: "randomImage := newImage" assigns a new local
UpdaterWrite_Shadowed ==
    /\ updPc = "write"
    /\ published' = TRUE
    /\ updPc' = "unlock"
    /\ UNCHANGED <<tree, configFile, mainPc, fileList, config, interval,
                   randomImage, imageMutex, newImage, selErr, sleepLeft,
                   elapsed, hPc, hConfig, hSel, hImage, hResp>>

\* randomImage = newImage
UpdaterWrite ==
    /\ updPc = "write"
    /\ randomImage' = newImage
    /\ published' = TRUE
    /\ updPc' = "unlock"
    /\ UNCHANGED <<tree, configFile, mainPc, fileList, config, interval,
                   imageMutex, newImage, selErr, sleepLeft, elapsed, hPc,
                   hConfig, hSel, hImage, hResp>>

\* imageMutex.Unlock(); time.Sleep(interval) begins
UpdaterUnlock ==
    /\ updPc = "unlock"
    /\ imageMutex' = FALSE
    /\ sleepLeft' = IF interval > 0 THEN interval ELSE 0
    /\ updPc' = "sleep"
    /\ UNCHANGED <<tree, configFile, mainPc, fileList, config, interval,
                   randomImage, newImage, selErr, elapsed, published, hPc,
                   hConfig, hSel, hImage, hResp>>

\* time.Sleep(interval) returns
UpdaterWake ==
    /\ updPc = "sleep"
    /\ sleepLeft = 0
    /\ updPc' = "select"
    /\ UNCHANGED <<tree, configFile, mainPc, fileList, config, interval,
                   randomImage, imageMutex, newImage, selErr, sleepLeft,
                   elapsed, published, hPc, hConfig, hSel, hImage, hResp>>

\* one second passes
Tick ==
    /\ mainPc = "serving"
    /\ elapsed < MaxElapsed \/ sleepLeft > 0
    /\ elapsed' = IF elapsed < MaxElapsed THEN elapsed + 1 ELSE elapsed
    /\ sleepLeft' = IF sleepLeft > 0 THEN sleepLeft - 1 ELSE 0
    /\ UNCHANGED <<tree, configFile, mainPc, fileList, config, interval,
                   randomImage, imageMutex, updPc, newImage, selErr, published,
                   hPc, hConfig, hSel, hImage, hResp>>

(***************************************************************************)
(* pageHandler.                                                            *)
(***************************************************************************)
\* a request arrives; config, err := loadConfig(configPath).  The template is
\* the embedded one init() has already parsed, so parsing it again succeeds.
HandlerLoadConfig(h) ==
    /\ mainPc = "serving"
    /\ hPc[h] = "idle"
    /\ IF loadConfigErr(configFile)
       THEN /\ hResp' = [hResp EXCEPT ![h] = "error"]
            /\ hPc' = [hPc EXCEPT ![h] = "done"]
            /\ UNCHANGED hConfig
       ELSE /\ hConfig' = [hConfig EXCEPT ![h] = loadConfig(configFile)]
            /\ hPc' = [hPc EXCEPT ![h] = "lock"]
            /\ UNCHANGED hResp
    /\ UNCHANGED <<tree, configFile, mainPc, fileList, config, interval,
                   randomImage, imageMutex, updPc, newImage, selErr, sleepLeft,
                   elapsed, published, hSel, hImage>>

\* imageMutex.Lock()
HandlerLock(h) ==
    /\ hPc[h] = "lock"
    /\ CanLock(imageMutex)
    /\ imageMutex' = TRUE
    /\ hPc' = [hPc EXCEPT ![h] = "read"]
    /\ UNCHANGED <<tree, configFile, mainPc, fileList, config, interval,
                   randomImage, updPc, newImage, selErr, sleepLeft, elapsed,
                   published, hConfig, hSel, hImage, hResp>>

\* return "/images" + randomImage[len(config.ImageDirectory):]
HandlerRead(h) ==
    /\ hPc[h] = "read"
    /\ hSel' = [hSel EXCEPT ![h] = randomImage]
    /\ IF ImagePanics(randomImage, hConfig[h])
       THEN /\ hResp' = [hResp EXCEPT ![h] = "panic"]
            /\ UNCHANGED hImage
       ELSE /\ hImage' = [hImage EXCEPT ![h] = ImageURL(randomImage, hConfig[h])]
            /\ UNCHANGED hResp
    /\ hPc' = [hPc EXCEPT ![h] = "defer"]
    /\ UNCHANGED <<tree, configFile, mainPc, fileList, config, interval,
                   randomImage, imageMutex, updPc, newImage, selErr, sleepLeft,
                   elapsed, published, hConfig>>

\* Unlock() called after the slice instead of deferred: a panic skips it
HandlerUnlock_NotDeferred(h) ==
    /\ hPc[h] = "defer"
    /\ imageMutex' = (hResp[h] = "panic")
    /\ hPc' = [hPc EXCEPT ![h] = IF hResp[h] = "panic" THEN "done" ELSE "render"]
    /\ UNCHANGED <<tree, configFile, mainPc, fileList, config, interval,
                   randomImage, updPc, newImage, selErr, sleepLeft, elapsed,
                   published, hConfig, hSel, hImage, hResp>>

\* defer imageMutex.Unlock() runs, on return and on panic alike.  After a
\* panic net/http recovers and drops the connection; otherwise the handler
\* goes on, unlocked, to execute the template.
HandlerUnlock(h) ==
    /\ hPc[h] = "defer"
    /\ imageMutex' = FALSE
    /\ hPc' = [hPc EXCEPT ![h] = IF hResp[h] = "panic" THEN "done" ELSE "render"]
    /\ UNCHANGED <<tree, configFile, mainPc, fileList, config, interval,
                   randomImage, updPc, newImage, selErr, sleepLeft, elapsed,
                   published, hConfig, hSel, hImage, hResp>>

\* tmplParsed.Execute(w, data): the page is written, or the write fails and
\* the handler answers with an error
HandlerRender(h) ==
    /\ hPc[h] = "render"
    /\ \E rendered \in BOOLEAN :
          hResp' = [hResp EXCEPT ![h] = IF rendered THEN "page" ELSE "error"]
    /\ hPc' = [hPc EXCEPT ![h] = "done"]
    /\ UNCHANGED <<tree, configFile, mainPc, fileList, config, interval,
                   randomImage, imageMutex, updPc, newImage, selErr, sleepLeft,
                   elapsed, published, hConfig, hSel, hImage>>

\* the handler has returned; its locals are gone
HandlerDone(h) ==
    /\ hPc[h] = "done"
    /\ hPc' = [hPc EXCEPT ![h] = "idle"]
    /\ hConfig' = [hConfig EXCEPT ![h] = NoConfig]
    /\ hSel' = [hSel EXCEPT ![h] = <<>>]
    /\ hImage' = [hImage EXCEPT ![h] = <<>>]
    /\ hResp' = [hResp EXCEPT ![h] = "none"]
    /\ UNCHANGED <<tree, configFile, mainPc, fileList, config, interval,
                   randomImage, imageMutex, updPc, newImage, selErr, sleepLeft,
                   elapsed, published>>

(***************************************************************************)
(* The environment: config.json is rewritten or removed.                   *)
(***************************************************************************)
EditConfig ==
    /\ mainPc # "crashed"
    /\ \E file \in ConfigFiles \cup {NoConfig} :
          /\ file # configFile
          /\ configFile' = file
    /\ UNCHANGED <<tree, mainPc, fileList, config, interval, randomImage,
                   imageMutex, updPc, newImage, selErr, sleepLeft, elapsed,
                   published, hPc, hConfig, hSel, hImage, hResp>>

Updater ==
    \/ UpdaterSelect
    \/ UpdaterLock
    \/ UpdaterWrite
    \/ UpdaterUnlock
    \/ UpdaterWake

Handler(h) ==
    \/ HandlerLoadConfig(h)
    \/ HandlerLock(h)
    \/ HandlerRead(h)
    \/ HandlerUnlock(h)
    \/ HandlerRender(h)
    \/ HandlerDone(h)

Next ==
    \/ MainLoadAllImages
    \/ MainLoadConfig
    \/ Updater
    \/ Tick
    \/ \E h \in Handlers : Handler(h)
    \/ EditConfig

Spec == Init /\ [][Next]_vars

(***************************************************************************)
(* The scan and the selector on their own: every tree and configuration    *)
(* of ScanTrees and ScanConfigFiles, main's start-up and the updater.      *)
(***************************************************************************)
ScanInit ==
    /\ tree \in ScanTrees
    /\ configFile \in ScanConfigFiles
    /\ StartState

ScanNext ==
    \/ MainLoadAllImages
    \/ MainLoadConfig
    \/ Updater

ScanSpec == ScanInit /\ [][ScanNext]_vars

(***************************************************************************)
(* Scheduling.  The Go scheduler runs every runnable goroutine, so a step  *)
(* that stays enabled is taken (weak fairness).  sync.Mutex hands the lock *)
(* to a goroutine that has waited for more than a millisecond (starvation  *)
(* mode), so a goroutine blocked in Lock() while the mutex is released     *)
(* again and again does acquire it (strong fairness of the two Lock steps).*)
(* Requests and seconds need not happen, and a handler writing its page    *)
(* may wait for the network for ever.  config.json is left alone here:     *)
(* what a handler loads only decides whether its slice panics, and Init    *)
(* holds both cases.                                                       *)
(***************************************************************************)
FairNext ==
    \/ MainLoadAllImages
    \/ MainLoadConfig
    \/ Updater
    \/ Tick
    \/ \E h \in Handlers : Handler(h)

UpdaterRuns ==
    \/ UpdaterSelect
    \/ UpdaterWrite
    \/ UpdaterUnlock
    \/ UpdaterWake

HandlerRuns(h) ==
    \/ HandlerRead(h)
    \/ HandlerUnlock(h)
    \/ HandlerDone(h)

Fairness ==
    /\ WF_vars(UpdaterRuns)
    /\ SF_vars(UpdaterLock)
    /\ \A h \in Handlers : WF_vars(HandlerRuns(h)) /\ SF_vars(HandlerLock(h))

FairSpec == Init /\ [][FairNext]_vars /\ Fairness

(***************************************************************************)
(* Properties.                                                             *)
(***************************************************************************)
\* the handler is past its read of randomImage
HasRead(h) == hPc[h] \in {"defer", "render"} \/ (hPc[h] = "done" /\ hConfig[h].ok)

\* the handler is inside its critical section
HandlerInCS(h) == hPc[h] \in {"read", "defer"}

\* the updater is inside its critical section
UpdaterInCS == updPc \in {"write", "unlock"}

\* C1: a page handler that read the empty selection did not panic while
\* computing the URL.
C1_EmptySelectionServed ==
    \A h \in Handlers :
        (HasRead(h) /\ hSel[h] = <<>>) => hResp[h] # "panic"

\* the URL the page should carry for selection sel under image root root
ExpectedURL(root, sel) ==
    ImagesPrefix \o <<"/">> \o
        (IF Abs(root) = <<"/">> THEN SliceFrom(sel, 1)
         ELSE SliceFrom(sel, Len(Abs(root)) + 1))

\* C2: when the selection a handler read lies under its configured image
\* root, however the root is spelled, the URL is "/images/" followed by the
\* selection's path relative to the root.
C2_URLIsRelativeToRoot ==
    \A h \in Handlers :
        (/\ HasRead(h)
         /\ hConfig[h].ImageDirectory # <<>>
         /\ IsUnder(Abs(hConfig[h].ImageDirectory), hSel[h]))
        => (/\ hResp[h] # "panic"
            /\ hImage[h] = ExpectedURL(hConfig[h].ImageDirectory, hSel[h]))

\* C3: the filtered file list holds no file whose extension equals an
\* excluded extension up to letter case, no file whose base name starts with
\* a dot, and no file whose directory contains an excluded substring.
C3_NoExcludedFile ==
    mainPc # "loadAllImages" =>
        \A i \in 1..Len(fileList) :
            /\ ~ \E e \in 1..Len(configFile.ExcludedExtensions) :
                    ToLower(configFile.ExcludedExtensions[e]) = ToLower(Ext(fileList[i]))
            /\ ~HasPrefix(Base(fileList[i]), <<".">>)
            /\ ~ \E d \in 1..Len(configFile.ExcludedDirectories) :
                    Contains(Dir(fileList[i]), configFile.ExcludedDirectories[d])

\* C4: when the updater's sleep ends, at least one second has passed since
\* its latest selection.
C4_AtLeastOneSecond ==
    [][(updPc = "sleep" /\ updPc' = "select") => elapsed >= 1]_vars

\* C5: a rendered page uses the image root and the display interval that
\* main read at start-up.
C5_ConfigReadOnce ==
    \A h \in Handlers :
        (hPc[h] = "done" /\ hResp[h] = "page") =>
            /\ hConfig[h].ImageDirectory = config.ImageDirectory
            /\ hConfig[h].DisplaySeconds = config.DisplaySeconds

\* C6: with an empty file list the selector returns the error (and the empty
\* string, no element), and no step changes the current selection.
C6_EmptyListKeepsSelection ==
    /\ []((mainPc = "serving" /\ Len(fileList) = 0 /\ updPc \notin {"notStarted", "select"})
            => (selErr /\ newImage = <<>>))
    /\ [][(mainPc = "serving" /\ Len(fileList) = 0) => randomImage' = randomImage]_vars

\* C6 witness: the updater has completed a tick on an empty file list.
C6_Witness ==
    /\ mainPc = "serving"
    /\ Len(fileList) = 0
    /\ published
    /\ selErr
    /\ updPc = "sleep"

\* C7: with a file list of one element, once the updater has written the
\* selection for the first time, the selection is that element, in every
\* state from then on.
C7_SingleElementPublished ==
    (mainPc = "serving" /\ Len(fileList) = 1 /\ published)
        => randomImage = fileList[1]

\* C7 witness: the updater is in a later tick while a handler reads.
C7_Witness ==
    /\ Len(fileList) = 1
    /\ published
    /\ updPc = "lock"
    /\ elapsed >= 1
    /\ \E h \in Handlers : hPc[h] = "read"

\* C8: at most one of the updater and the handlers is inside its critical
\* section and the mutex is held exactly then; the selection changes only
\* in the updater's write, made with the mutex held.
C8_MutualExclusion ==
    /\ [](/\ Cardinality({h \in Handlers : HandlerInCS(h)})
               + (IF UpdaterInCS THEN 1 ELSE 0) <= 1
          /\ imageMutex = (UpdaterInCS \/ \E h \in Handlers : HandlerInCS(h)))
    /\ [][randomImage' # randomImage =>
            (updPc = "write" /\ updPc' = "unlock" /\ imageMutex /\ hSel' = hSel)]_vars

\* C8 witness: a handler is inside while the updater and another handler wait.
C8_Witness ==
    /\ updPc = "lock"
    /\ \E h1, h2 \in Handlers : hPc[h1] = "read" /\ hPc[h2] = "lock"

\* C9: a held mutex is released, also by a handler that panicked inside its
\* critical section, and whoever waits in Lock() gets the mutex.
C9_NoDeadlockNoStarvation ==
    /\ imageMutex ~> ~imageMutex
    /\ (updPc = "lock") ~> (updPc = "write")
    /\ \A h \in Handlers :
          /\ (hPc[h] = "lock") ~> (hPc[h] = "read")
          /\ (HandlerInCS(h) /\ hResp[h] = "panic") ~> (hPc[h] = "done")

\* C9 witness: a handler that panicked holds the mutex while the updater and
\* another handler wait for it.
C9_Witness ==
    /\ updPc = "lock"
    /\ \E h1, h2 \in Handlers :
          /\ hPc[h1] = "defer"
          /\ hResp[h1] = "panic"
          /\ hPc[h2] = "lock"

\* C10: on a non-empty list the selector returns no error and an element of
\* the list, and the list is the same after the call.
C10_SelectsAnElement ==
    /\ []((updPc = "lock" /\ Len(fileList) > 0)
            => (~selErr /\ \E i \in 1..Len(fileList) : newImage = fileList[i]))
    /\ [][UpdaterSelect => fileList' = fileList]_vars

\* C10 witness: the last element of a list of several has been selected.
C10_Witness ==
    /\ updPc = "lock"
    /\ Len(fileList) >= 2
    /\ ~selErr
    /\ newImage = fileList[Len(fileList)]

\* C11: the current selection is the empty string or an element of the file
\* list, and once main has computed the file list no step of the updater, of
\* a handler or of anything else changes it.
C11_SelectionFromFixedList ==
    /\ [](randomImage = <<>> \/ \E i \in 1..Len(fileList) : randomImage = fileList[i])
    /\ [][mainPc # "loadAllImages" => fileList' = fileList]_vars

\* C11 witness: after several ticks and with requests under way, the selection
\* is the second file of a list of two, read by a handler that has answered.
C11_Witness ==
    /\ published
    /\ Len(fileList) = 2
    /\ randomImage = fileList[2]
    /\ newImage = fileList[1]
    /\ \E h1, h2 \in Handlers :
          /\ hPc[h1] = "done"
          /\ hSel[h1] = fileList[2]
          /\ hPc[h2] = "lock"

====
